---- MODULE Spec2Model ----
(***************************************************************************)
(* Model of the posts reducer (src/reducers/post-reducer.js and its        *)
(* earlier revisions) and of the localStorage-backed reducer store         *)
(* (src/hooks/local-state-reducer.js) of the react-lesson application.     *)
(*                                                                         *)
(* JavaScript values are tagged records: undefined, numbers, strings and   *)
(* arrays of object references.  Objects live in a heap (a sequence, the   *)
(* reference is the index), so that an assignment to a field of a shared   *)
(* object is seen through every array that holds the reference.            *)
(***************************************************************************)
EXTENDS Integers, Sequences, FiniteSets, TLC

\* The field names of the model's records, in the order in which every record
\* of the model lists its fields.
FieldNames ==
    DOMAIN [action |-> 0, ancestry |-> 0, answered |-> 0, arg |-> 0, before |-> 0, body |-> 0,
            data |-> 0, doc |-> 0,
            due |-> 0, f |-> 0, fetches |-> 0, heap |-> 0, id |-> 0, items |-> 0, list |-> 0, mounted |-> 0, name |-> 0, of |-> 0, out |-> 0,
            param |-> 0, payload |-> 0, pending |-> 0, phase |-> 0, post |-> 0, posts |-> 0, refs |-> 0, requests |-> 0, result |-> 0, route |-> 0,
            sent |-> 0, t |-> 0,
            term |-> 0, threw |-> 0, title |-> 0, type |-> 0, v |-> 0, val |-> 0]

\* Longest list drawn as an input, and the length beyond which no record is added.
MaxLen == 3
\* Longest list of a store when two tabs are open, and the largest id a
\* record may hold for another to be added.
TabMaxLen == 2
\* Largest id of a record of an input list (ids assigned by addPost may exceed it by one).
MaxId == 2

\* The number of requests the detail view issues, beyond which it is no longer followed.
MaxFetches == 3

(***************************************************************************)
(* JavaScript values                                                       *)
(***************************************************************************)
Undefined == [t |-> "undefined"]
Null == [t |-> "null"]
Num(n) == [t |-> "num", v |-> n]
Str(s) == [t |-> "str", v |-> s]
\* An array of objects: the sequence of the references of its elements.
Arr(refs) == [refs |-> refs, t |-> "arr"]
\* A plain object given as a literal (an action's payload): keys to values.
Obj(f) == [f |-> f, t |-> "obj"]

\* An object with no own property.
EmptyObject == [k \in {} |-> Undefined]

\* o[k]: reading a property the object does not own gives undefined.
Get(o, k) == IF k \in DOMAIN o THEN o[k] ELSE Undefined

\* o[k] = v
Put(o, k, v) == [x \in (DOMAIN o) \cup {k} |-> IF x = k THEN v ELSE o[x]]

\* The decimal strings of the small integers, as a form field or a route carries an id.
Dec(n) ==
    CASE n = 0 -> "0" [] n = 1 -> "1" [] n = 2 -> "2" [] n = 3 -> "3"
      [] n = 4 -> "4" [] n = 5 -> "5" [] n = 6 -> "6" [] n = 7 -> "7"
      [] n = 8 -> "8" [] n = 9 -> "9"

DecRange == 0..9

\* ToNumber of a string: its integer when it is a decimal string, NaN otherwise.
IsDecimal(s) == \E n \in DecRange : Dec(n) = s
ToNumber(s) == CHOOSE n \in DecRange : Dec(n) = s

\* a === b on primitives: same type and same value.
StrictEq(a, b) == a = b

\* a == b on primitives: a number and a string compare by the string's number.
LooseEq(a, b) ==
    CASE a.t = b.t -> a = b
      [] a.t = "num" /\ b.t = "str" -> IsDecimal(b.v) /\ a.v = ToNumber(b.v)
      [] a.t = "str" /\ b.t = "num" -> IsDecimal(a.v) /\ b.v = ToNumber(a.v)
      [] OTHER -> FALSE

\* a >= b with b a number: undefined converts to NaN, which compares false.
GreaterEq(a, b) ==
    CASE a.t = "num" -> a.v >= b.v
      [] a.t = "str" -> IsDecimal(a.v) /\ ToNumber(a.v) >= b.v
      [] OTHER -> FALSE

\* a + 1: a number is incremented, a string is concatenated with "1".
PlusOne(a) ==
    CASE a.t = "num" -> Num(a.v + 1)
      [] a.t = "str" -> Str(a.v \o "1")

(***************************************************************************)
(* The outcome of a call: it returns a value or throws, and leaves a heap. *)
(***************************************************************************)
Return(h, v) == [heap |-> h, out |-> "return", val |-> v]
Throw(h) == [heap |-> h, out |-> "throw", val |-> Undefined]

\* [...posts] throws a TypeError unless posts is iterable.
Iterable(posts) == posts.t = "arr"

(***************************************************************************)
(* removePost: [...posts].filter(post => post.id !== id)                   *)
(***************************************************************************)
\* Mutant: the filter keeps the matching records (=== for !==).
RECURSIVE FilterKeepsMatch(_, _, _)
FilterKeepsMatch(h, refs, id) ==
    IF refs = <<>> THEN <<>>
    ELSE IF StrictEq(Get(h[Head(refs)], "id"), id)
         THEN <<Head(refs)>> \o FilterKeepsMatch(h, Tail(refs), id)
         ELSE FilterKeepsMatch(h, Tail(refs), id)

\* Mutant: the filter returns the records it keeps in reverse order.
RECURSIVE FilterNotReversed(_, _, _)
FilterNotReversed(h, refs, id) ==
    IF refs = <<>> THEN <<>>
    ELSE IF ~StrictEq(Get(h[Head(refs)], "id"), id)
         THEN FilterNotReversed(h, Tail(refs), id) \o <<Head(refs)>>
         ELSE FilterNotReversed(h, Tail(refs), id)

RECURSIVE FilterNot(_, _, _)
FilterNot(h, refs, id) ==
    IF refs = <<>> THEN <<>>
    ELSE IF ~StrictEq(Get(h[Head(refs)], "id"), id)
         THEN <<Head(refs)>> \o FilterNot(h, Tail(refs), id)
         ELSE FilterNot(h, Tail(refs), id)

removePost(h, posts, id) ==
    IF ~Iterable(posts) THEN Throw(h)
    ELSE Return(h, Arr(FilterNot(h, posts.refs, id)))

(***************************************************************************)
(* addPost: the id is found by a scan that keeps the largest id plus one.  *)
(***************************************************************************)
\* Mutant: the id is the number of records.
NewIdFromCount(h, refs, newId) == Num(Len(refs))

\* Mutant: the id is the last record's id plus one.
NewIdFromLast(h, refs, newId) ==
    IF refs = <<>> THEN newId ELSE PlusOne(Get(h[refs[Len(refs)]], "id"))

RECURSIVE NewId(_, _, _)
NewId(h, refs, newId) ==
    IF refs = <<>> THEN newId
    ELSE LET id == Get(h[Head(refs)], "id")
         IN  NewId(h, Tail(refs), IF GreaterEq(id, newId) THEN PlusOne(id) ELSE newId)

\* f1 and f2 are the two descriptive fields of the revision (name/ancestry, title/body).
addPostFields(h, posts, data, f1, f2) ==
    IF ~Iterable(posts) THEN Throw(h)
    ELSE IF data.t # "obj" THEN Throw(h)
    ELSE LET object == [k \in {"id", f1, f2} |->
                          CASE k = "id" -> NewId(h, posts.refs, Num(0))
                            [] k = f1 -> Get(data.f, f1)
                            [] OTHER -> Get(data.f, f2)]
         IN  Return(Append(h, object), Arr(Append(posts.refs, Len(h) + 1)))

addPost(h, posts, data) == addPostFields(h, posts, data, "name", "ancestry")

(***************************************************************************)
(* updatePost: [...posts].map(item => { if (item.id == id) { item[f1] =    *)
(* data[f1]; item[f2] = data[f2] } return item }).  The array is a copy,   *)
(* its elements are the objects of the argument, assigned in place.        *)
(***************************************************************************)
\* Mutant: the second field is not assigned.
RECURSIVE MapUpdateFirstFieldOnly(_, _, _, _, _, _)
MapUpdateFirstFieldOnly(h, refs, id, data, f1, f2) ==
    IF refs = <<>> THEN [heap |-> h, threw |-> FALSE]
    ELSE LET r == Head(refs)
         IN  IF LooseEq(Get(h[r], "id"), id)
             THEN IF data.t # "obj"
                  THEN [heap |-> h, threw |-> TRUE]
                  ELSE LET item == Put(h[r], f1, Get(data.f, f1))
                       IN  MapUpdateFirstFieldOnly([h EXCEPT ![r] = item], Tail(refs),
                                                   id, data, f1, f2)
             ELSE MapUpdateFirstFieldOnly(h, Tail(refs), id, data, f1, f2)

\* Mutant: if (item.id = id), an assignment for the comparison: the id is
\* overwritten and the test is the truthiness of id.
Truthy(a) ==
    CASE a.t = "num" -> a.v # 0
      [] a.t = "str" -> a.v # ""
      [] a.t \in {"arr", "obj"} -> TRUE
      [] OTHER -> FALSE

RECURSIVE MapUpdateAssignsId(_, _, _, _, _, _)
MapUpdateAssignsId(h, refs, id, data, f1, f2) ==
    IF refs = <<>> THEN [heap |-> h, threw |-> FALSE]
    ELSE LET r == Head(refs)
             withId == Put(h[r], "id", id)
         IN  IF Truthy(id)
             THEN IF data.t # "obj"
                  THEN [heap |-> [h EXCEPT ![r] = withId], threw |-> TRUE]
                  ELSE LET item == Put(Put(withId, f1, Get(data.f, f1)), f2, Get(data.f, f2))
                       IN  MapUpdateAssignsId([h EXCEPT ![r] = item], Tail(refs),
                                              id, data, f1, f2)
             ELSE MapUpdateAssignsId([h EXCEPT ![r] = withId], Tail(refs), id, data, f1, f2)

RECURSIVE MapUpdate(_, _, _, _, _, _)
MapUpdate(h, refs, id, data, f1, f2) ==
    IF refs = <<>> THEN [heap |-> h, threw |-> FALSE]
    ELSE LET r == Head(refs)
         IN  IF LooseEq(Get(h[r], "id"), id)
             THEN IF data.t # "obj"
                  THEN [heap |-> h, threw |-> TRUE]
                  ELSE LET item == Put(Put(h[r], f1, Get(data.f, f1)), f2, Get(data.f, f2))
                       IN  MapUpdate([h EXCEPT ![r] = item], Tail(refs), id, data, f1, f2)
             ELSE MapUpdate(h, Tail(refs), id, data, f1, f2)

updatePostFields(h, posts, id, data, f1, f2) ==
    IF ~Iterable(posts) THEN Throw(h)
    ELSE LET m == MapUpdate(h, posts.refs, id, data, f1, f2)
         IN  IF m.threw THEN Throw(m.heap) ELSE Return(m.heap, Arr(posts.refs))

updatePost(h, posts, id, data) == updatePostFields(h, posts, id, data, "name", "ancestry")

(***************************************************************************)
(* search(term) starts a fetch and returns nothing: the call is undefined. *)
(***************************************************************************)
search(h, term) == Return(h, Undefined)

(***************************************************************************)
(* postReducer, the revision the provider imports, and its two earlier     *)
(* revisions.                                                              *)
(***************************************************************************)
\* Mutant: initialise appends the payload to the current list.
postReducerMerges(h, posts, action) ==
    CASE action.type = "initialise" ->
            IF posts.t = "arr" /\ action.posts.t = "arr"
            THEN Return(h, Arr(posts.refs \o action.posts.refs))
            ELSE Return(h, action.posts)
      [] action.type = "added" -> addPost(h, posts, action.post)
      [] action.type = "removed" -> removePost(h, posts, action.id)
      [] action.type = "updated" -> updatePost(h, posts, action.id, action.post)
      [] OTHER -> Return(h, posts)

postReducer(h, posts, action) ==
    CASE action.type = "initialise" -> Return(h, action.posts)
      [] action.type = "added" -> addPost(h, posts, action.post)
      [] action.type = "removed" -> removePost(h, posts, action.id)
      [] action.type = "updated" -> updatePost(h, posts, action.id, action.post)
      [] OTHER -> Return(h, posts)

\* The revision with a "search" case.
postReducerSearch(h, posts, action) ==
    CASE action.type = "initialise" -> Return(h, action.posts)
      [] action.type = "added" -> addPost(h, posts, action.post)
      [] action.type = "removed" -> removePost(h, posts, action.id)
      [] action.type = "updated" -> updatePost(h, posts, action.id, action.post)
      [] action.type = "search" -> search(h, action.term)
      [] OTHER -> Return(h, posts)

\* The revision over title/body records whose switch has no default: the
\* function falls off its end and the call is undefined.
postReducerNoDefault(h, posts, action) ==
    CASE action.type = "initialise" -> Return(h, action.posts)
      [] action.type = "added" -> addPostFields(h, posts, action.post, "title", "body")
      [] action.type = "removed" -> removePost(h, posts, action.id)
      [] action.type = "updated" ->
            updatePostFields(h, posts, action.id, action.post, "title", "body")
      [] OTHER -> Return(h, Undefined)

Revisions == {"current", "search", "nodefault"}

Reducer(revision, h, posts, action) ==
    CASE revision = "current" -> postReducer(h, posts, action)
      [] revision = "search" -> postReducerSearch(h, posts, action)
      [] revision = "nodefault" -> postReducerNoDefault(h, posts, action)

(***************************************************************************)
(* Inputs                                                                  *)
(***************************************************************************)
\* The descriptive fields of a record, and of a well-formed payload.
Fields == {[ancestry |-> Str("x"), name |-> Str("A")],
           [ancestry |-> Str("y"), name |-> Str("B")]}

Record(id, f) == [ancestry |-> f.ancestry, id |-> Num(id), name |-> f.name]

Records == {Record(id, f) : id \in 0..MaxId, f \in Fields}

\* The lists of at most MaxLen records (ids may repeat).
Lists == UNION {[1..n -> Records] : n \in 0..MaxLen}

\* An action's post: absent, without fields, without ancestry, or well formed.
Payloads == {Undefined, Obj(EmptyObject), Obj([name |-> Str("B")])}
              \cup {Obj(f) : f \in Fields}

\* An action's id: an integer or the decimal string of one.
ActionIds == {Num(n) : n \in 0..(MaxId + 1)} \cup {Str(Dec(n)) : n \in 0..(MaxId + 1)}

\* Lists carried by an initialise action: the lists of at most one record, and
\* one of two records.
InitLists == {l \in Lists : Len(l) <= 1}
               \cup {<<Record(1, [ancestry |-> Str("x"), name |-> Str("A")]),
                       Record(0, [ancestry |-> Str("y"), name |-> Str("B")])>>}

UnknownTypes == {"bogus", "search"}

Action(type, id, post, list) == [id |-> id, post |-> post, posts |-> list,
                                 term |-> Undefined, type |-> type]

NoCall == [action |-> Action("none", Undefined, Undefined, Undefined),
           arg |-> Undefined, before |-> Undefined, out |-> "none",
           payload |-> Undefined, result |-> Undefined]

(***************************************************************************)
(* State                                                                   *)
(***************************************************************************)
\* What localStorage holds under a key.
Absent == [t |-> "absent"]
EmptyText == [t |-> "empty"]
Garbage == [t |-> "garbage"]
\* The storage refuses access: localStorage.getItem(key) throws.
Unreadable == [t |-> "unreadable"]
Text(doc) == [doc |-> doc, t |-> "text"]

\* The list route, no form opened, no handler run.
NoView == [id |-> Str(""), list |-> "current", param |-> Undefined, route |-> "list",
           sent |-> <<>>, term |-> ""]

\* The detail view is not mounted.
NoDetail == [due |-> FALSE, fetches |-> 0, id |-> Undefined, mounted |-> FALSE,
             post |-> Undefined, requests |-> <<>>]

\* The provider loads nothing remotely.
NoRemote == [answered |-> 0, before |-> 0, data |-> Undefined, pending |-> 0]

\* No second tab is open.
NoTab == [heap |-> <<>>, pending |-> FALSE, phase |-> "unmounted", posts |-> Undefined]

VARIABLES
    revision,       \* which revision of postReducer is installed
    heap,           \* the objects: a sequence indexed by reference
    posts,          \* the reducer's state
    call,           \* the last recorded call of the reducer: its arguments and its outcome
    storage,        \* what localStorage holds under the key "posts"
    phase,          \* the provider: "unmounted", "initialized", "mounted", "crashed"
    effectPending,  \* the persist effect is scheduled and has not run
    written,        \* the value of the state at the last write to storage
    hook,           \* the revision of useLocalStateReducer: "plain" or "guarded"
    other,          \* the store of a second tab on the same key: its objects, state and phase
    view,           \* the route shown, the form's hidden id, the actions the last handler sent
    detail,         \* the detail view: its route id, its post, the requests in flight
    remote          \* the provider that loads the list remotely: the responses it awaits

reducerVars == <<revision, heap, posts, call>>
storeVars == <<storage, phase, effectPending, written, hook, other, view, detail, remote>>
vars ==
    <<revision, heap, posts, call, storage, phase, effectPending, written, hook, other, view,
      detail, remote>>

\* The value of v: an array is read through the heap, element by element.
Value(h, v) ==
    IF v.t = "arr" THEN [items |-> [i \in 1..Len(v.refs) |-> h[v.refs[i]]], t |-> "arr"]
    ELSE v

\* The record a view reads from an object: its id, name and ancestry.
View(o) == [k \in {"id", "name", "ancestry"} |-> Get(o, k)]

\* Before a call the objects the state does not reach are dropped and the
\* references renumbered: the array of n elements holds references 1..n.
Compact(h, v) ==
    IF v.t = "arr" THEN [heap |-> [i \in 1..Len(v.refs) |-> h[v.refs[i]]],
                         val |-> Arr([i \in 1..Len(v.refs) |-> i])]
    ELSE [heap |-> <<>>, val |-> v]

\* The array literal `items` is allocated after the objects of h.
Allocate(h, items) ==
    [heap |-> h \o items, val |-> Arr([i \in 1..Len(items) |-> Len(h) + i])]

\* The ids of the records of a list.
Ids(h, v) == {Get(h[v.refs[i]], "id") : i \in 1..Len(v.refs)}

(***************************************************************************)
(* The reducer called as a function: one call on a drawn list, with its    *)
(* arguments and its outcome recorded.                                     *)
(***************************************************************************)
\* The call of the reducer on state c.val with `action`, from heap h.
Recorded(h, c, action) ==
    LET r == Reducer(revision, h, c.val, action)
    IN  /\ call.out = "none"
        /\ heap' = r.heap
        /\ posts' = IF r.out = "return" THEN r.val ELSE c.val
        /\ call' = [action |-> action, arg |-> c.val, before |-> Value(h, c.val),
                    out |-> r.out, payload |-> Value(h, action.posts), result |-> r.val]
        /\ UNCHANGED <<revision, storeVars>>

Call(action) == Recorded(Compact(heap, posts).heap, Compact(heap, posts), action)

Added ==
    \E p \in Payloads : Call(Action("added", Undefined, p, Undefined))

Updated ==
    \E id \in ActionIds, p \in Payloads : Call(Action("updated", id, p, Undefined))

Removed ==
    \E id \in ActionIds : Call(Action("removed", id, Undefined, Undefined))

\* The payload list is allocated by the caller; the reducer receives the array.
Initialise ==
    \E q \in InitLists :
        LET c == Compact(heap, posts)
            a == Allocate(c.heap, q)
        IN  Recorded(a.heap, c, Action("initialise", Undefined, Undefined, a.val))

Unknown ==
    \E ty \in UnknownTypes : Call(Action(ty, Undefined, Undefined, Undefined))

InitList(l) ==
    /\ heap = l
    /\ posts = Arr([i \in 1..Len(l) |-> i])
    /\ call = NoCall
    /\ storage = Absent
    /\ phase = "unmounted"
    /\ effectPending = FALSE
    /\ written = Undefined
    /\ hook = "plain"
    /\ other = NoTab
    /\ view = NoView
    /\ detail = NoDetail
    /\ remote = NoRemote

\* The reducer of the current revision, called on every list and every action.
InitReducer == revision = "current" /\ \E l \in Lists : InitList(l)

NextReducer == Added \/ Updated \/ Removed \/ Initialise \/ Unknown

SpecReducer == InitReducer /\ [][NextReducer]_vars

\* The same calls on each revision of the reducer.
InitRevisions == revision \in Revisions /\ \E l \in Lists : InitList(l)

SpecRevisions == InitRevisions /\ [][NextReducer]_vars

(***************************************************************************)
(* localStorage and JSON.  The key holds nothing, the empty string, a text *)
(* JSON.parse rejects, or the text of a JSON document.  A document is an   *)
(* array of objects, each with the properties JSON.stringify keeps (those  *)
(* whose value is not undefined), or null.                                 *)
(***************************************************************************)

\* The properties of o that JSON.stringify writes.
OwnDefined(o) == [k \in {x \in DOMAIN o : o[x] # Undefined} |-> o[k]]

\* Mutant: the text keeps only the id and the name of each record.
StringifyItemsIdAndName(h, refs) ==
    [i \in 1..Len(refs) |->
        [k \in {x \in DOMAIN h[refs[i]] : h[refs[i]][x] # Undefined} \cap {"id", "name"} |->
            h[refs[i]][k]]]

StringifyItems(h, refs) == [i \in 1..Len(refs) |-> OwnDefined(h[refs[i]])]

\* localStorage.setItem(key, JSON.stringify(state)): what the key holds after
\* the write.  JSON.stringify(undefined) is undefined, stored as the text
\* "undefined", which is no JSON.
Stringify(h, v) ==
    CASE v.t = "arr" -> Text([items |-> StringifyItems(h, v.refs), t |-> "arr"])
      [] v.t = "undefined" -> Garbage
      [] OTHER -> Text(v)

\* JSON.parse(json) of a document: the objects of an array are new objects.
Parse(h, doc) ==
    IF doc.t = "arr" THEN Allocate(h, doc.items)
    ELSE [heap |-> h, val |-> doc]

\* Mutant: the stored text is parsed outside the try: what cannot be read or
\* parsed leaves no state.
initializerWithoutCatch(h, stored, initial) ==
    CASE stored.t \in {"absent", "empty"} -> [heap |-> h, val |-> initial]
      [] stored.t \in {"garbage", "unreadable"} -> [heap |-> h, val |-> Undefined]
      [] stored.t = "text" -> Parse(h, stored.doc)

\* initializer: json ? JSON.parse(json) : initial, and initial when getItem
\* or JSON.parse throws.
initializer(h, stored, initial) ==
    CASE stored.t \in {"absent", "empty"} -> [heap |-> h, val |-> initial]
      [] stored.t \in {"garbage", "unreadable"} -> [heap |-> h, val |-> initial]
      [] stored.t = "text" -> Parse(h, stored.doc)

\* What the key may hold when the application starts.
StoredLists == InitLists

StoredValues ==
    {Absent, EmptyText, Garbage, Text(Null), Text(Num(0)), Text(Obj(EmptyObject))}
        \cup {Text([items |-> l, t |-> "arr"]) : l \in StoredLists}

\* The payloads the store is sent: well formed, or without fields.
StorePayloads == {Obj(EmptyObject)} \cup {Obj(f) : f \in Fields}

Hooks == {"plain", "guarded"}

(***************************************************************************)
(* The provider's store: useLocalStateReducer(postReducer, [], "posts").   *)
(***************************************************************************)
\* The first render: useReducer(reducer, initial, initializer); the effect
\* that writes the state is scheduled.
Mount ==
    /\ phase = "unmounted"
    /\ LET i == initializer(<<>>, storage, Arr(<<>>))
       IN  /\ heap' = i.heap
           /\ posts' = i.val
    /\ phase' = "initialized"
    /\ effectPending' = TRUE
    /\ UNCHANGED <<revision, call, storage, written, hook, other, view, detail, remote>>

\* Mutant: the effect writes the state and resets it to the initial value.
PersistAndReset ==
    /\ phase \in {"initialized", "mounted"}
    /\ effectPending
    /\ storage' = Stringify(heap, posts)
    /\ written' = Value(heap, posts)
    /\ effectPending' = FALSE
    /\ phase' = "mounted"
    /\ heap' = <<>>
    /\ posts' = Arr(<<>>)
    /\ UNCHANGED <<revision, call, hook, other, view, detail, remote>>

\* The effect: localStorage.setItem(key, JSON.stringify(state)), on a storage
\* that accepts the write; both revisions of the hook then do the same.
Persist ==
    /\ phase \in {"initialized", "mounted"}
    /\ effectPending
    /\ storage' = Stringify(heap, posts)
    /\ written' = Value(heap, posts)
    /\ effectPending' = FALSE
    /\ phase' = "mounted"
    /\ UNCHANGED <<reducerVars, hook, other, view, detail, remote>>

\* Mutant: a dispatch changes the state and schedules no effect.
DispatchWithoutEffect(action) ==
    LET c == Compact(heap, posts)
        r == Reducer(revision, c.heap, c.val, action)
    IN  /\ phase = "mounted"
        /\ ~effectPending
        /\ heap' = r.heap
        /\ posts' = IF r.out = "return" THEN r.val ELSE c.val
        /\ phase' = IF r.out = "return" THEN "mounted" ELSE "crashed"
        /\ effectPending' = FALSE
        /\ UNCHANGED <<revision, call, storage, written, hook, other, view, detail, remote>>

\* dispatch(action): the next render calls the reducer.  A reducer that
\* throws takes the tree down; a state that is the same reference schedules
\* no effect.  Passive effects are flushed before the next event is handled.
Send(action) ==
    /\ phase = "mounted"
    /\ ~effectPending
    /\ \E c \in {Compact(heap, posts)} : \E r \in {Reducer(revision, c.heap, c.val, action)} :
          /\ heap' = r.heap
          /\ posts' = IF r.out = "return" THEN r.val ELSE c.val
          /\ phase' = IF r.out = "return" THEN "mounted" ELSE "crashed"
          /\ effectPending' = (r.out = "return"
                                 /\ action.type \in {"initialise", "added", "removed", "updated"})
    /\ UNCHANGED <<revision, call, storage, written, hook, other, detail, remote>>

\* dispatch(action) with the views left as they are.
Dispatch(action) == Send(action) /\ UNCHANGED view

\* No record is added to a list of MaxLen records or holding an id above MaxId.
Room ==
    posts.t = "arr" =>
        /\ Len(posts.refs) < MaxLen
        /\ \A id \in Ids(heap, posts) : id.t = "num" /\ id.v <= MaxId

DispatchAdded ==
    /\ Room
    /\ \E p \in StorePayloads : Dispatch(Action("added", Undefined, p, Undefined))

DispatchUpdated ==
    \E id \in ActionIds, p \in StorePayloads : Dispatch(Action("updated", id, p, Undefined))

DispatchRemoved ==
    \E id \in ActionIds : Dispatch(Action("removed", id, Undefined, Undefined))

DispatchUnknown ==
    \E ty \in UnknownTypes : Dispatch(Action(ty, Undefined, Undefined, Undefined))

\* The page is loaded again: the store is gone, the storage stays.
Reload ==
    /\ phase \in {"initialized", "mounted", "crashed"}
    /\ phase' = "unmounted"
    /\ heap' = <<>>
    /\ posts' = Undefined
    /\ effectPending' = FALSE
    /\ UNCHANGED <<revision, call, storage, written, hook, other, view, detail, remote>>

\* What the provider hands to the views in the render that computed the
\* state: <EventsContext.Provider value={{posts, dispatch}}>.  The effect
\* that writes the state runs after that render is committed.
Published == IF phase \in {"initialized", "mounted"} THEN posts ELSE Undefined

\* The actions the store is sent.
StoreActions ==
    {Action("added", Undefined, p, Undefined) : p \in StorePayloads}
        \cup {Action("updated", id, p, Undefined) : id \in ActionIds, p \in StorePayloads}
        \cup {Action("removed", id, Undefined, Undefined) : id \in ActionIds}
        \cup {Action(ty, Undefined, Undefined, Undefined) : ty \in UnknownTypes}

Init ==
    /\ revision = "current"
    /\ heap = <<>>
    /\ posts = Undefined
    /\ call = NoCall
    /\ storage \in StoredValues
    /\ phase = "unmounted"
    /\ effectPending = FALSE
    /\ written = Undefined
    /\ hook \in Hooks
    /\ other = NoTab
    /\ view = NoView
    /\ detail = NoDetail
    /\ remote = NoRemote

Next ==
    \/ Mount
    \/ Persist
    \/ DispatchAdded
    \/ DispatchUpdated
    \/ DispatchRemoved
    \/ DispatchUnknown
    \/ Reload

Spec == Init /\ [][Next]_vars

\* React runs an effect it has scheduled.
SpecLive == Spec /\ WF_vars(Persist)

(***************************************************************************)
(* Two tabs: two providers, each with its own store, on one localStorage.  *)
(* Each tab runs the code of the one store; the second tab's store is kept *)
(* in `other`.                                                             *)
(***************************************************************************)
ThisPayload == Obj([ancestry |-> Str("x"), name |-> Str("A")])
OtherPayload == Obj([ancestry |-> Str("y"), name |-> Str("B")])

\* The actions a tab sends: it adds its record, updates or removes record 0 or 1.
TabActions(p) ==
    {Action("added", Undefined, p, Undefined)}
        \cup {Action("updated", Num(n), p, Undefined) : n \in 0..1}
        \cup {Action("removed", Num(n), Undefined, Undefined) : n \in 0..1}

\* No record is added to a list of TabMaxLen records or holding an id of
\* TabMaxLen or more.
TabRoom(h, v, a) ==
    (a.type = "added" /\ v.t = "arr") =>
        /\ Len(v.refs) < TabMaxLen
        /\ \A id \in Ids(h, v) : id.t = "num" /\ id.v < TabMaxLen

TabDispatch ==
    \E a \in TabActions(ThisPayload) : TabRoom(heap, posts, a) /\ Dispatch(a)

\* The second tab's first render.
MountOther ==
    /\ other.phase = "unmounted"
    /\ LET i == initializer(<<>>, storage, Arr(<<>>))
       IN  other' = [heap |-> i.heap, pending |-> TRUE, phase |-> "initialized",
                     posts |-> i.val]
    /\ UNCHANGED <<reducerVars, storage, phase, effectPending, written, hook, view, detail, remote>>

\* Mutant: the second tab's effect appends its records to the stored list.
PersistOtherMerges ==
    /\ other.phase \in {"initialized", "mounted"}
    /\ other.pending
    /\ storage' = IF storage.t = "text" /\ storage.doc.t = "arr" /\ other.posts.t = "arr"
                  THEN Text([items |-> storage.doc.items
                                         \o StringifyItems(other.heap, other.posts.refs),
                             t |-> "arr"])
                  ELSE Stringify(other.heap, other.posts)
    /\ written' = Value(other.heap, other.posts)
    /\ other' = [other EXCEPT !.pending = FALSE, !.phase = "mounted"]
    /\ UNCHANGED <<reducerVars, phase, effectPending, hook, view, detail, remote>>

\* The second tab's effect: localStorage.setItem(key, JSON.stringify(state)).
PersistOther ==
    /\ other.phase \in {"initialized", "mounted"}
    /\ other.pending
    /\ storage' = Stringify(other.heap, other.posts)
    /\ written' = Value(other.heap, other.posts)
    /\ other' = [other EXCEPT !.pending = FALSE, !.phase = "mounted"]
    /\ UNCHANGED <<reducerVars, phase, effectPending, hook, view, detail, remote>>

\* dispatch(action) in the second tab.
DispatchOther(action) ==
    LET c == Compact(other.heap, other.posts)
        r == Reducer(revision, c.heap, c.val, action)
    IN  /\ other.phase = "mounted"
        /\ ~other.pending
        /\ other' = [heap |-> r.heap,
                     pending |-> (r.out = "return"
                                    /\ action.type \in {"initialise", "added", "removed", "updated"}),
                     phase |-> IF r.out = "return" THEN "mounted" ELSE "crashed",
                     posts |-> IF r.out = "return" THEN r.val ELSE c.val]
        /\ UNCHANGED <<reducerVars, storage, phase, effectPending, written, hook, view, detail, remote>>

OtherDispatch ==
    \E a \in TabActions(OtherPayload) :
        TabRoom(other.heap, other.posts, a) /\ DispatchOther(a)

InitTabs ==
    /\ revision = "current"
    /\ heap = <<>>
    /\ posts = Undefined
    /\ call = NoCall
    /\ storage \in {Absent,
                     Text([items |-> <<Record(0, [ancestry |-> Str("x"), name |-> Str("A")])>>,
                           t |-> "arr"])}
    /\ phase = "unmounted"
    /\ effectPending = FALSE
    /\ written = Undefined
    /\ hook \in Hooks
    /\ other = NoTab
    /\ view = NoView
    /\ detail = NoDetail
    /\ remote = NoRemote

NextTabs ==
    \/ Mount
    \/ Persist
    \/ TabDispatch
    \/ MountOther
    \/ PersistOther
    \/ OtherDispatch

SpecTabs == InitTabs /\ [][NextTabs]_vars

(***************************************************************************)
(* The views: the list route /events and the form of /events/new and       *)
(* /events/:id/edit.                                                       *)
(***************************************************************************)
NaN == [t |-> "nan"]

\* parseInt(id) of a route parameter.
ParseInt(v) == IF v.t = "str" /\ IsDecimal(v.v) THEN Num(ToNumber(v.v)) ELSE NaN

\* The value of an input rendered with defaultValue={v}.
InputValue(v) ==
    CASE v.t = "num" -> Str(Dec(v.v))
      [] v.t = "str" -> v
      [] OTHER -> Str("")

\* posts.find(item => item.id === parseInt(id)) ?? {}
RECURSIVE Find(_, _, _)
Find(h, refs, n) ==
    IF refs = <<>> THEN EmptyObject
    ELSE IF StrictEq(Get(h[Head(refs)], "id"), n) THEN h[Head(refs)]
         ELSE Find(h, Tail(refs), n)

\* The route parameter id: none on /events/new, a decimal string on /events/:id/edit.
RouteIds == {Undefined} \cup {Str(Dec(n)) : n \in 0..(MaxId + 1)}

\* Mutant: the hidden input takes the route parameter itself.
EventFormOfRouteId(id) ==
    [id |-> InputValue(id), list |-> view.list, param |-> id, route |-> "form", sent |-> <<>>,
     term |-> ""]

\* EventForm rendered for the route parameter id: the hidden input takes the
\* id of the record found.
EventForm(id) ==
    [id |-> InputValue(Get(Find(heap, posts.refs, ParseInt(id)), "id")),
     list |-> view.list, param |-> id, route |-> "form", sent |-> <<>>, term |-> ""]

\* The form's route is entered, by a link or by its address.
OpenForm ==
    /\ phase = "mounted"
    /\ ~effectPending
    /\ posts.t = "arr"
    /\ \E id \in RouteIds : view' = EventForm(id)
    /\ UNCHANGED <<reducerVars, storage, phase, effectPending, written, hook, other, detail, remote>>

\* Mutant: the form's id is tested as a number: if (!parseInt(data.get("id"))).
FormHasIdAsNumber(id) == Truthy(ParseInt(id))

\* The test of handleSubmit, negated: !data.get("id") is false.
FormHasId(id) == Truthy(id)

\* handleSubmit(data): one dispatch, then navigate("/events").
handleSubmit(id, post) ==
    LET a == IF FormHasId(id) THEN Action("updated", id, post, Undefined)
             ELSE Action("added", Undefined, post, Undefined)
    IN  /\ Send(a)
        /\ view' = [id |-> id, list |-> view.list, param |-> view.param, route |-> "list",
                     sent |-> <<a>>, term |-> ""]

Submit ==
    /\ view.route = "form"
    /\ ~FormHasId(view.id) => Room
    /\ \E f \in Fields : handleSubmit(view.id, Obj(f))

InitViews ==
    /\ revision = "current"
    /\ heap = <<>>
    /\ posts = Undefined
    /\ call = NoCall
    /\ storage \in {Absent} \cup {Text([items |-> l, t |-> "arr"]) : l \in StoredLists}
    /\ phase = "unmounted"
    /\ effectPending = FALSE
    /\ written = Undefined
    /\ hook \in Hooks
    /\ other = NoTab
    /\ view = NoView
    /\ detail = NoDetail
    /\ remote = NoRemote

\* item.name.toLowerCase() of the names the model draws.
Lower(s) == CASE s = "A" -> "a" [] s = "B" -> "b" [] OTHER -> s

\* name.includes(term), for names of one character.
Includes(s, term) == term = "" \/ s = term

\* What the search form may be submitted with.
Terms == {"", "a"}

\* The revisions of EventList: the test of its render is if(posts), or
\* if(posts && posts.length > 0).
ListRevisions == {"current", "nonempty"}

\* The branch of EventList that renders the search form, the Add Event link
\* and the rows; the other branch renders "Nothin is here...".
ShowsMenu(rev, v) ==
    /\ Truthy(v)
    /\ rev = "nonempty" => v.t = "arr" /\ Len(v.refs) > 0

\* The list view renders its rows: posts is an array of records with a name.
ListRenders ==
    /\ phase = "mounted"
    /\ view.route = "list"
    /\ posts.t = "arr"
    /\ ShowsMenu(view.list, posts)
    /\ \A i \in 1..Len(posts.refs) : Get(heap[posts.refs[i]], "name").t = "str"

\* The rows of the list view: the positions of the records that pass
\* posts.filter(item => item.name.toLowerCase().includes(term)).
Rows(h, v, term) ==
    {i \in 1..Len(v.refs) : Includes(Lower(Get(h[v.refs[i]], "name").v), term)}

\* Mutant: the row passes the id as it appears in its url, as text.
RowIdsAsText(h, v, term) == {InputValue(Get(h[v.refs[i]], "id")) : i \in Rows(h, v, term)}

\* itemId={link.id} of the rows rendered.
RowIds(h, v, term) == {Get(h[v.refs[i]], "id") : i \in Rows(h, v, term)}

\* search(data): setTerm(data.get("term").toLowerCase()).
Search ==
    /\ ListRenders
    /\ \E t \in Terms : view' = [view EXCEPT !.term = Lower(t)]
    /\ UNCHANGED <<reducerVars, storage, phase, effectPending, written, hook, other, detail, remote>>

\* The Delete control of a row: dispatch({type: "removed", id: props.itemId}).
Delete ==
    /\ ListRenders
    /\ \E id \in RowIds(heap, posts, view.term) :
          LET a == Action("removed", id, Undefined, Undefined)
          IN  /\ Send(a)
              /\ view' = [view EXCEPT !.sent = <<a>>]

NextViews ==
    \/ Mount
    \/ Persist
    \/ OpenForm
    \/ Submit
    \/ Search
    \/ Delete

SpecViews == InitViews /\ [][NextViews]_vars

\* <Link to="/events/new">Add Event</Link> of the list view.
ClickAdd ==
    /\ ListRenders
    /\ ~effectPending
    /\ view' = EventForm(Undefined)
    /\ UNCHANGED <<reducerVars, storage, phase, effectPending, written, hook, other, detail, remote>>

\* <Link to={`/events/${props.itemId}/edit`}>Edit</Link> of a row.
ClickEdit ==
    /\ ListRenders
    /\ ~effectPending
    /\ \E id \in RowIds(heap, posts, view.term) : view' = EventForm(InputValue(id))
    /\ UNCHANGED <<reducerVars, storage, phase, effectPending, written, hook, other, detail, remote>>

\* The application under each revision of EventList, used through the
\* controls its views render.
InitLinks ==
    /\ revision = "current"
    /\ heap = <<>>
    /\ posts = Undefined
    /\ call = NoCall
    /\ storage \in {Absent} \cup {Text([items |-> l, t |-> "arr"]) : l \in StoredLists}
    /\ phase = "unmounted"
    /\ effectPending = FALSE
    /\ written = Undefined
    /\ hook \in Hooks
    /\ other = NoTab
    /\ view \in {[NoView EXCEPT !.list = r] : r \in ListRevisions}
    /\ detail = NoDetail
    /\ remote = NoRemote

NextLinks ==
    \/ Mount
    \/ Persist
    \/ ClickAdd
    \/ ClickEdit
    \/ Submit
    \/ Search
    \/ Delete

SpecLinks == InitLinks /\ [][NextLinks]_vars

(***************************************************************************)
(* The detail view: Event fetches the record of its route id when it is    *)
(* rendered and shows it, or a loading line while it has none.             *)
(***************************************************************************)
\* The route parameter of /events/:id.
DetailIds == {Str(Dec(n)) : n \in 0..MaxId}

\* What response.json() gives for the request of an id: a new object each time.
Fetched(id) == [of |-> id, t |-> "obj"]

\* The posts the component's state may hold.
DetailPosts == {Undefined} \cup {Fetched(id) : id \in DetailIds}

\* How often the effect runs when the component mounts: once, and twice
\* under <StrictMode> in a development build.
MountEffects == {1, 2}

\* The component renders the record: if(post), and otherwise the loading line.
ShowsPost == detail.mounted /\ Truthy(detail.post)

\* The route /events/:id is entered: useState() holds undefined, and the
\* effect runs and calls fetch for the id.
OpenDetail ==
    /\ ~detail.mounted
    /\ \E id \in DetailIds, n \in MountEffects :
          detail' = [due |-> FALSE, fetches |-> n, id |-> id, mounted |-> TRUE,
                     post |-> Undefined, requests |-> [i \in 1..n |-> id]]
    /\ UNCHANGED <<reducerVars, storage, phase, effectPending, written, hook, other, view, remote>>

\* The route id changes while the component stays mounted: the state is
\* kept, and the dependency id of the effect has changed.
ChangeId ==
    /\ detail.mounted
    /\ \E id \in DetailIds \ {detail.id} :
          detail' = [detail EXCEPT !.id = id, !.due = TRUE]
    /\ UNCHANGED <<reducerVars, storage, phase, effectPending, written, hook, other, view, remote>>

\* The i-th request in flight is answered: setPost(data); the state holds a
\* new object, the component renders again, and the dependency post of the
\* effect has changed.
setPost(i) ==
    detail' = [detail EXCEPT !.due = TRUE,
                             !.post = Fetched(detail.requests[i]),
                             !.requests = SubSeq(detail.requests, 1, i - 1)
                                            \o SubSeq(detail.requests, i + 1,
                                                      Len(detail.requests))]

\* A response arrives, for any of the requests in flight.
Respond ==
    /\ detail.mounted
    /\ \E i \in 1..Len(detail.requests) : setPost(i)
    /\ UNCHANGED <<reducerVars, storage, phase, effectPending, written, hook, other, view, remote>>

\* Mutant: the catch handler stores the error, and the view leaves the
\* loading line to show it.
catchStoresError(i) ==
    detail' = [detail EXCEPT !.due = TRUE,
                             !.post = Str("error"),
                             !.requests = SubSeq(detail.requests, 1, i - 1)
                                            \o SubSeq(detail.requests, i + 1,
                                                      Len(detail.requests))]

\* .catch(error => console.error(...)): the i-th request fails, and the
\* state of the component is left as it is.
catch(i) ==
    detail' = [detail EXCEPT !.requests = SubSeq(detail.requests, 1, i - 1)
                                            \o SubSeq(detail.requests, i + 1,
                                                      Len(detail.requests))]

\* A request fails: the network is down, or the body is not JSON.
Fail ==
    /\ detail.mounted
    /\ \E i \in 1..Len(detail.requests) : catch(i)
    /\ UNCHANGED <<reducerVars, storage, phase, effectPending, written, hook, other, view, remote>>

\* The effect runs after a render in which id or post has changed:
\* fetch(`https://jsonplaceholder.typicode.com/posts/${id}`).
FetchEffect ==
    /\ detail.mounted
    /\ detail.due
    /\ detail.fetches < MaxFetches
    /\ detail' = [detail EXCEPT !.due = FALSE,
                                !.fetches = detail.fetches + 1,
                                !.requests = Append(detail.requests, detail.id)]
    /\ UNCHANGED <<reducerVars, storage, phase, effectPending, written, hook, other, view, remote>>

\* Another route is entered: the component unmounts, and what arrives for
\* its requests is dropped.
CloseDetail ==
    /\ detail.mounted
    /\ detail' = NoDetail
    /\ UNCHANGED <<reducerVars, storage, phase, effectPending, written, hook, other, view, remote>>

InitDetail ==
    /\ revision = "current"
    /\ heap = <<>>
    /\ posts = Undefined
    /\ call = NoCall
    /\ storage = Absent
    /\ phase = "unmounted"
    /\ effectPending = FALSE
    /\ written = Undefined
    /\ hook \in Hooks
    /\ other = NoTab
    /\ view = NoView
    /\ detail = NoDetail
    /\ remote = NoRemote

NextDetail ==
    \/ OpenDetail
    \/ ChangeId
    \/ Respond
    \/ Fail
    \/ FetchEffect
    \/ CloseDetail

SpecDetail == InitDetail /\ [][NextDetail]_vars

\* The detail view while no request is answered: each one fails or stays
\* in flight.
NextOffline ==
    \/ OpenDetail
    \/ ChangeId
    \/ Fail
    \/ FetchEffect
    \/ CloseDetail

SpecOffline == InitDetail /\ [][NextOffline]_vars

(***************************************************************************)
(* The provider revision that loads the list remotely: useReducer with []  *)
(* and an effect that, after a delay, fetches the collection and sends     *)
(* `initialise` with its first ten records.                                *)
(***************************************************************************)
\* A record of the remote collection.
RemoteRecord(id) == [body |-> Str("y"), id |-> Num(id), title |-> Str("A")]

\* What the remote collection may hold.
RemoteLists == {<<>>, <<RemoteRecord(1)>>, <<RemoteRecord(1), RemoteRecord(2)>>}

\* data.slice(from, to)
Slice(l, from, to) == SubSeq(l, from + 1, IF Len(l) < to THEN Len(l) ELSE to)

\* The actions the form and the rows send: a record is added, record 0 or 1
\* is updated by the form or removed by its row.
ViewActions ==
    {Action("added", Undefined, ThisPayload, Undefined)}
        \cup {Action("updated", Str(Dec(n)), OtherPayload, Undefined) : n \in 0..1}
        \cup {Action("removed", Num(n), Undefined, Undefined) : n \in 0..1}

\* The provider mounts: the state is [], and each run of the effect sets a
\* timer that fetches the collection.
MountRemote ==
    /\ phase = "unmounted"
    /\ heap' = <<>>
    /\ posts' = Arr(<<>>)
    /\ phase' = "mounted"
    /\ \E n \in MountEffects : remote' = [NoRemote EXCEPT !.pending = n]
    /\ UNCHANGED <<revision, call, storage, effectPending, written, hook, other, view, detail>>

\* dispatch(action) of the provider's useReducer, the objects being h: no
\* effect follows.
SendRemote(h, action) ==
    \E c \in {Compact(heap, posts)} : \E r \in {Reducer(revision, h, c.val, action)} :
        /\ heap' = r.heap
        /\ posts' = IF r.out = "return" THEN r.val ELSE c.val
        /\ phase' = IF r.out = "return" THEN "mounted" ELSE "crashed"

\* A view sends an action.
DispatchRemote ==
    /\ phase = "mounted"
    /\ \E a \in ViewActions :
          /\ TabRoom(heap, posts, a)
          /\ SendRemote(Compact(heap, posts).heap, a)
    /\ UNCHANGED <<revision, call, storage, effectPending, written, hook, other, view, detail,
                   remote>>

\* A response arrives: dispatch({type: "initialise", posts: data.slice(0, 10)}).
Arrive ==
    /\ phase = "mounted"
    /\ remote.pending > 0
    /\ \E data \in RemoteLists :
          LET c == Compact(heap, posts)
              a == Allocate(c.heap, Slice(data, 0, 10))
          IN  /\ SendRemote(a.heap, Action("initialise", Undefined, Undefined, a.val))
              /\ remote' = [answered |-> remote.answered + 1,
                            before |-> Len(posts.refs),
                            data |-> Value(a.heap, a.val),
                            pending |-> remote.pending - 1]
    /\ UNCHANGED <<revision, call, storage, effectPending, written, hook, other, view, detail>>

\* A request fails: the promise has no catch handler, and nothing is sent.
Lost ==
    /\ phase = "mounted"
    /\ remote.pending > 0
    /\ remote' = [remote EXCEPT !.pending = remote.pending - 1]
    /\ UNCHANGED <<reducerVars, storage, phase, effectPending, written, hook, other, view,
                   detail>>

InitRemote ==
    /\ revision = "current"
    /\ heap = <<>>
    /\ posts = Undefined
    /\ call = NoCall
    /\ storage = Absent
    /\ phase = "unmounted"
    /\ effectPending = FALSE
    /\ written = Undefined
    /\ hook = "plain"
    /\ other = NoTab
    /\ view = NoView
    /\ detail = NoDetail
    /\ remote = NoRemote

NextRemote ==
    \/ MountRemote
    \/ DispatchRemote
    \/ Arrive
    \/ Lost

SpecRemote == InitRemote /\ [][NextRemote]_vars

(***************************************************************************)
(* The store on a storage that takes no write: its quota is used up, or    *)
(* access to it is refused.                                                *)
(***************************************************************************)
\* The effect when localStorage.setItem throws: the plain hook lets the
\* exception out of the effect and React takes the tree down; the guarded
\* hook catches and logs it.
PersistFails ==
    /\ phase \in {"initialized", "mounted"}
    /\ effectPending
    /\ effectPending' = FALSE
    /\ phase' = IF hook = "guarded" THEN "mounted" ELSE "crashed"
    /\ UNCHANGED <<reducerVars, storage, written, hook, other, view, detail, remote>>

InitFaulty ==
    /\ revision = "current"
    /\ heap = <<>>
    /\ posts = Undefined
    /\ call = NoCall
    /\ storage \in StoredValues \cup {Unreadable}
    /\ phase = "unmounted"
    /\ effectPending = FALSE
    /\ written = Undefined
    /\ hook \in Hooks
    /\ other = NoTab
    /\ view = NoView
    /\ detail = NoDetail
    /\ remote = NoRemote

NextFaulty ==
    \/ Mount
    \/ PersistFails
    \/ DispatchAdded
    \/ DispatchUpdated
    \/ DispatchRemoved
    \/ DispatchUnknown
    \/ Reload

SpecFaulty == InitFaulty /\ [][NextFaulty]_vars

(***************************************************************************)
(* Properties of a call of the reducer                                     *)
(***************************************************************************)
\* The list passed to the call, as it was, and the list the call returned.
Before == call.before.items
After == Value(heap, posts).items

IdOf(o) == Get(o, "id")
NameOf(o) == Get(o, "name")
AncestryOf(o) == Get(o, "ancestry")

\* Largest of a set of integers, -1 for the empty set.
MaxOf(S) == IF S = {} THEN -1 ELSE CHOOSE m \in S : \A x \in S : x <= m

\* The positions of `list` whose record has exactly the id x.
Holding(list, x) == {i \in 1..Len(list) : IdOf(list[i]) = x}

\* The positions whose id equals x once both are numbers.
Designated(list, x) == {i \in 1..Len(list) : LooseEq(IdOf(list[i]), x)}

UniqueIds(list) ==
    \A i, j \in 1..Len(list) : IdOf(list[i]) = IdOf(list[j]) => i = j

\* C1: `added` with a payload returns the list with one more record; the last
\* record's id is 1 + the largest id of the list (0 for the empty list) and
\* its name and ancestry are the payload's.
C1_AddedAppendsMaxIdPlusOne ==
    (call.action.type = "added" /\ call.action.post.t = "obj") =>
        /\ call.out = "return"
        /\ Len(After) = Len(Before) + 1
        /\ IdOf(After[Len(After)]) =
               Num(1 + MaxOf({IdOf(Before[i]).v : i \in 1..Len(Before)}))
        /\ NameOf(After[Len(After)]) = Get(call.action.post.f, "name")
        /\ AncestryOf(After[Len(After)]) = Get(call.action.post.f, "ancestry")

\* A record was added to a list whose largest id is not its last record's and
\* differs from the number of records minus one.
C1_Witness ==
    /\ call.action.type = "added" /\ call.out = "return"
    /\ Len(Before) = 2
    /\ IdOf(Before[1]) = Num(2) /\ IdOf(Before[2]) = Num(0)
    /\ IdOf(After[3]) = Num(3)
    /\ NameOf(After[3]) = Str("B")

\* C2: the reducers keep ids unique: `added`, `updated` or `removed` called on
\* a list with unique ids returns a list with unique ids.
C2_UniqueIdsPreserved ==
    (call.action.type \in {"added", "updated", "removed"} /\ UniqueIds(Before)) =>
        UniqueIds(After)

\* A record was added to a list of unique ids from which a smaller id is missing.
C2_Witness ==
    /\ call.action.type = "added" /\ call.out = "return"
    /\ UniqueIds(Before) /\ Len(Before) = 2
    /\ IdOf(Before[1]) = Num(0) /\ IdOf(Before[2]) = Num(2)
    /\ UniqueIds(After) /\ Len(After) = 3

\* C3: `removed` with an id that exactly one record holds returns the list
\* one shorter, with no record of that id.
C3_RemovedDropsTheRecord ==
    (call.action.type = "removed"
       /\ Cardinality(Holding(Before, call.action.id)) = 1) =>
        /\ call.out = "return"
        /\ Len(After) = Len(Before) - 1
        /\ Holding(After, call.action.id) = {}

\* The record in the middle of a list of three was removed.
C3_Witness ==
    /\ call.action.type = "removed" /\ call.out = "return"
    /\ Len(Before) = 3
    /\ Holding(Before, call.action.id) = {2}
    /\ Len(After) = 2

\* C4: `updated` with an id that a record holds and a payload returns a list
\* of the same length; the records of that id keep their id and take the
\* payload's name and ancestry, every other record is unchanged in its place.
C4_UpdatedReplacesFieldsInPlace ==
    (call.action.type = "updated" /\ call.action.post.t = "obj"
       /\ Holding(Before, call.action.id) # {}) =>
        /\ call.out = "return"
        /\ Len(After) = Len(Before)
        /\ \A i \in 1..Len(Before) :
              IF i \in Holding(Before, call.action.id)
              THEN /\ IdOf(After[i]) = IdOf(Before[i])
                   /\ NameOf(After[i]) = Get(call.action.post.f, "name")
                   /\ AncestryOf(After[i]) = Get(call.action.post.f, "ancestry")
              ELSE After[i] = Before[i]

\* The second of three records was updated with a name and an ancestry it did not have.
C4_Witness ==
    /\ call.action.type = "updated" /\ call.out = "return"
    /\ call.action.post.t = "obj"
    /\ Len(Before) = 3
    /\ Holding(Before, call.action.id) = {2}
    /\ NameOf(Before[2]) # NameOf(After[2])
    /\ AncestryOf(Before[2]) # AncestryOf(After[2])

\* C5: `updated` and `removed` with an id that no record carries (an integer
\* no record holds, or a decimal string whose integer no record holds) return
\* a list equal to the one passed.
C5_AbsentIdIsNoOp ==
    (call.action.type \in {"updated", "removed"}
       /\ Designated(Before, call.action.id) = {}) =>
        /\ call.out = "return"
        /\ After = Before

\* `updated` with a payload and an id no record carries, on a list of two records.
C5_Witness ==
    /\ call.action.type = "updated" /\ call.out = "return"
    /\ call.action.post.t = "obj"
    /\ call.action.id.t = "num"
    /\ Len(Before) = 2
    /\ Designated(Before, call.action.id) = {}
    /\ After = Before

\* C6: `initialise` returns its payload list whatever the list passed, and
\* applying the same action to the result returns the same list again.
C6_InitialiseReturnsPayload ==
    call.action.type = "initialise" =>
        /\ call.out = "return"
        /\ posts = call.action.posts
        /\ Value(heap, posts) = call.payload
        /\ LET again == Reducer(revision, heap, posts, call.action)
           IN  /\ again.out = "return"
               /\ again.val = posts
               /\ Value(again.heap, again.val) = call.payload

\* `initialise` with a non-empty payload, called on a different non-empty list.
C6_Witness ==
    /\ call.action.type = "initialise" /\ call.out = "return"
    /\ Len(Before) = 3
    /\ Len(After) = 2
    /\ After[1] # Before[1]

\* C7: an action of a type other than initialise/added/updated/removed
\* returns the list passed, unchanged, and does not throw.
C7_UnknownTypeReturnsList ==
    call.action.type \in UnknownTypes =>
        /\ call.out = "return"
        /\ posts = call.arg
        /\ Value(heap, posts) = call.before

\* C8: after a call the list passed in and its records hold the values they
\* held before the call.
C8_InputNotMutated ==
    call.out # "none" => Value(heap, call.arg) = call.before

\* C9: `added` and `updated` return a next state also when the action carries
\* no post, or a post without name or ancestry; the fields missing from the
\* post are undefined in the record.
C9_MalformedActionDoesNotThrow ==
    call.action.type \in {"added", "updated"} =>
        /\ call.out = "return"
        /\ (call.action.type = "added" /\ call.action.post.t = "obj"
              /\ "name" \notin DOMAIN call.action.post.f) =>
                NameOf(After[Len(After)]) = Undefined

\* The records a view reads from a state: of each its id, name and ancestry.
Read(v) == IF v.t = "arr" THEN [i \in 1..Len(v.items) |-> View(v.items[i])] ELSE v

C11_InitializerParsesOrFallsBack ==
    phase = "initialized" =>
        CASE storage.t = "text" /\ storage.doc.t = "arr" ->
                 posts.t = "arr" /\ Value(heap, posts) = storage.doc
          [] storage.t = "text" /\ storage.doc.t # "arr" -> posts = storage.doc
          [] OTHER -> posts = Arr(<<>>)

\* A store was initialised from a storage that cannot be read.
C11_Witness ==
    /\ phase = "initialized" /\ storage = Unreadable /\ posts = Arr(<<>>)

\* C12: a write to storage that fails leaves the store running with the
\* state the reducer returned.
C12_WriteFailureIsCaught ==
    [][PersistFails => (phase' = "mounted" /\ posts' = posts /\ heap' = heap)]_vars

\* The store is running and the key holds the JSON of its state.
InSync ==
    /\ phase = "mounted"
    /\ ~effectPending
    /\ storage = Stringify(heap, posts)

\* C13: the first step of a store just initialised is the write of its state
\* (unless the page is left); a running store with no effect scheduled has
\* its state's JSON under the key, so every dispatch that changed the state
\* was followed by a write; and a running store comes to hold its state's
\* JSON under the key, unless the page is left or the reducer throws.
C13_StateIsWrittenAfterEveryChange ==
    /\ [][(phase = "initialized" /\ phase' # "unmounted") => InSync']_vars
    /\ []((phase = "mounted" /\ ~effectPending) => InSync)
    /\ ((phase \in {"initialized", "mounted"}) ~> (InSync \/ phase \in {"unmounted", "crashed"}))

\* A record was added to a stored list of one record, and the list of two was written.
C13_Witness ==
    /\ InSync
    /\ posts.t = "arr" /\ Len(posts.refs) = 2
    /\ storage.doc.items[2].id = Num(1)
    /\ "name" \in DOMAIN storage.doc.items[2]

\* The next state is what postReducer returns for the state and some action.
FoldStep ==
    \E c \in {Compact(heap, posts)} : \E a \in StoreActions :
        \E r \in {Reducer(revision, c.heap, c.val, a)} :
            /\ r.out = "return"
            /\ Value(heap', posts') = Value(r.heap, r.val)

Kept == (1..Len(Before)) \ Holding(Before, call.action.id)

\* The k-th smallest of a set of positions.
Nth(S, k) == CHOOSE i \in S : Cardinality({j \in S : j <= i}) = k

\* C15: `added` leaves every record as it is at its position and puts the
\* new record last; `removed` returns the records that do not hold the id,
\* as they are and in their order; `updated` leaves every id at its position
\* and every record of another id as it is.
C15_OrderIsPreserved ==
    call.out = "return" =>
        /\ call.action.type = "added" =>
              /\ Len(After) = Len(Before) + 1
              /\ \A i \in 1..Len(Before) : After[i] = Before[i]
        /\ call.action.type = "removed" =>
              /\ Len(After) = Cardinality(Kept)
              /\ \A k \in 1..Len(After) : After[k] = Before[Nth(Kept, k)]
        /\ call.action.type = "updated" =>
              /\ Len(After) = Len(Before)
              /\ \A i \in 1..Len(Before) :
                    /\ IdOf(After[i]) = IdOf(Before[i])
                    /\ i \notin Designated(Before, call.action.id) => After[i] = Before[i]

\* The first of three records with different ids was removed.
C15_Witness ==
    /\ call.action.type = "removed" /\ call.out = "return"
    /\ Len(Before) = 3 /\ UniqueIds(Before)
    /\ Holding(Before, call.action.id) = {1}
    /\ After = <<Before[2], Before[3]>>

\* C16: whatever the key holds at the start, the state of the store is a
\* list from its initialization on and no dispatch takes the store down.
C16_StoreNeverCrashes ==
    phase # "unmounted" => (posts.t = "arr" /\ phase # "crashed")

\* C17: after a dispatch the new list is written to storage before it is
\* published: the list the views of a running store render is the list whose
\* JSON the key holds.
C17_PublishedListIsWritten ==
    (phase = "mounted" /\ Published.t = "arr") =>
        storage = Stringify(heap, Published)

\* C18: with two tabs on the key, every write puts the whole state of the
\* tab that writes under the key, whatever the key held, and changes the
\* state of neither tab: no tab reads the key again after its start.
C18_LastWriteWins ==
    [][storage' # storage =>
          /\ posts' = posts /\ heap' = heap
          /\ other'.posts = other.posts /\ other'.heap = other.heap
          /\ \/ (phase' = "mounted" /\ ~effectPending' /\ effectPending
                    /\ storage' = Stringify(heap, posts))
             \/ (other'.phase = "mounted" /\ ~other'.pending /\ other.pending
                    /\ storage' = Stringify(other.heap, other.posts))]_vars

\* Both tabs started on an empty list and each added a record and wrote its
\* list: the key holds the second tab's list, the first tab's record is in
\* no stored list.
C18_Witness ==
    /\ phase = "mounted" /\ ~effectPending
    /\ other.phase = "mounted" /\ ~other.pending
    /\ posts.t = "arr" /\ Len(posts.refs) = 1 /\ NameOf(heap[posts.refs[1]]) = Str("A")
    /\ other.posts.t = "arr" /\ Len(other.posts.refs) = 1
    /\ NameOf(other.heap[other.posts.refs[1]]) = Str("B")
    /\ storage = Stringify(other.heap, other.posts)
    /\ storage # Stringify(heap, posts)

\* C19: a submit of the form sends one action, `updated` with the form's id
\* when the form holds one (the id 0 included) and `added` otherwise, and
\* leaves the list route showing the list postReducer returns for it; the
\* record of that id has the submitted name.
C19_SubmitSendsOneAction ==
    [][(view.route = "form" /\ view'.route = "list") =>
          /\ Len(view'.sent) = 1
          /\ LET a == view'.sent[1]
                 c == Compact(heap, posts)
                 r == Reducer(revision, c.heap, c.val, a)
             IN  /\ IF view.id # Str("")
                    THEN a.type = "updated" /\ a.id = view.id
                    ELSE a.type = "added"
                 /\ r.out = "return"
                 /\ Published'.t = "arr"
                 /\ Value(heap', Published') = Value(r.heap, r.val)
                 /\ view.id # Str("") =>
                       \A i \in 1..Len(posts.refs) :
                           IdOf(heap[posts.refs[i]]) = ParseInt(view.id) =>
                               NameOf(heap'[posts'.refs[i]]) = Get(a.post.f, "name")]_vars

\* The form of record 0 was submitted with another name.
C19_Witness ==
    /\ view.route = "list" /\ view.id = Str("0")
    /\ Len(view.sent) = 1 /\ view.sent[1].type = "updated"
    /\ effectPending
    /\ written.t = "arr" /\ Len(written.items) = 2
    /\ \E i \in 1..2 :
          /\ IdOf(written.items[i]) = Num(0)
          /\ IdOf(heap[posts.refs[i]]) = Num(0)
          /\ NameOf(heap[posts.refs[i]]) = Get(view.sent[1].post.f, "name")
          /\ NameOf(written.items[i]) # NameOf(heap[posts.refs[i]])

\* A payload with values no record of an input list has.
Probe == Obj([ancestry |-> Str("?"), name |-> Str("?")])

\* `removed` with id deletes the record o.
Removes(o, id) == removePost(<<o>>, Arr(<<1>>), id).val.refs = <<>>

\* `updated` with id modifies the record o.
Updates(o, id) == updatePost(<<o>>, Arr(<<1>>), id, Probe).heap[1] # o

\* C20: for an id given as an integer or as the decimal string of one,
\* `removed` deletes a record exactly when `updated` with the same id
\* modifies it.
C20_UpdatedAndRemovedAgree ==
    (call.action.type \in {"removed", "updated"} /\ call.out = "return") =>
        \A i \in 1..Len(Before) :
            Removes(Before[i], call.action.id) <=> Updates(Before[i], call.action.id)

\* C21: every id carried by an action a view sends (the form's updated, the
\* row's removed) is an integer.
C21_ViewsSendIntegerIds ==
    \A i \in 1..Len(view.sent) :
        view.sent[i].type \in {"updated", "removed"} => view.sent[i].id.t = "num"

\* A step of a row's Delete control: the list view sends an action.
DeleteStep == view.route = "list" /\ phase = "mounted" /\ ~effectPending /\ effectPending'

\* C22: the Delete control of a row sends one `removed` with the id of the
\* row's record; afterwards the list holds no record with that id, holds
\* every other record as it was and in its order, and the list view has no
\* row for the id.
C22_RowDeleteRemovesItsRecord ==
    [][DeleteStep =>
          /\ Len(view'.sent) = 1
          /\ view'.sent[1].type = "removed"
          /\ Published'.t = "arr"
          /\ \E i \in Rows(heap, posts, view.term) :
                LET old == Value(heap, posts).items
                    new == Value(heap', Published').items
                    id == IdOf(old[i])
                    rest == (1..Len(old)) \ Holding(old, id)
                IN  /\ view'.sent[1].id = id
                    /\ Holding(new, id) = {}
                    /\ Len(new) = Cardinality(rest)
                    /\ \A k \in 1..Len(new) : new[k] = old[Nth(rest, k)]
                    /\ id \notin RowIds(heap', posts', view'.term)]_vars

\* The row of record 1 was deleted from a list of two, and record 0 is left.
C22_Witness ==
    /\ view.route = "list"
    /\ view.sent = <<Action("removed", Num(1), Undefined, Undefined)>>
    /\ effectPending
    /\ Published.t = "arr"
    /\ Len(posts.refs) = 1
    /\ IdOf(heap[posts.refs[1]]) = Num(0)

\* C23: whenever the list view shows a list, the empty list included, it
\* offers the Add Event link.
C23_ListOffersAddEvent ==
    (phase = "mounted" /\ view.route = "list" /\ posts.t = "arr") =>
        ShowsMenu(view.list, posts)

\* A step in which a request of the mounted detail view ends.
RequestEnds == detail.mounted /\ detail'.mounted /\ Len(detail'.requests) < Len(detail.requests)

\* C24: while every request fails or stays in flight, the detail view shows
\* its loading line as long as it is mounted, and a failed request changes
\* nothing in it: no error is stored, and no fetch is issued or scheduled.
C24_FailedRequestKeepsLoading ==
    [][/\ detail'.mounted => ~ShowsPost'
       /\ RequestEnds =>
             /\ detail'.post = detail.post
             /\ detail'.fetches = detail.fetches
             /\ detail'.due = detail.due]_vars

\* The one request of the view has failed, and the view shows the loading line.
C24_Witness ==
    /\ detail.mounted
    /\ detail.fetches = 1
    /\ detail.requests = <<>>
    /\ ~detail.due
    /\ ~ShowsPost

\* C25: while the detail view holds the record of its route id, it issues
\* no further request for it.
C25_NoFetchAfterSuccess ==
    [][(/\ ShowsPost
        /\ detail.post.of = detail.id
        /\ detail'.mounted
        /\ detail'.id = detail.id) => detail'.fetches = detail.fetches]_vars

\* C26: the record the detail view shows was fetched for the current route id.
C26_ShowsRecordOfRouteId ==
    ShowsPost => detail.post.of = detail.id

\* C27: when a response of the remote provider arrives, the list is the one
\* the response delivers, whatever the views sent before.
C27_InitialiseReplacesTheList ==
    [][remote'.answered > remote.answered =>
          /\ phase' = "mounted"
          /\ Value(heap', posts') = remote'.data]_vars

\* The list held a record the form had added when the response arrived, and
\* it is now the one record the response delivered.
C27_Witness ==
    /\ remote.answered = 1
    /\ remote.before = 1
    /\ remote.data = [items |-> <<RemoteRecord(1)>>, t |-> "arr"]
    /\ Value(heap, posts) = remote.data

\* The form is open on the edit route, and no record has the route's id.
EditsNoRecord ==
    /\ view.route = "form"
    /\ view.param # Undefined
    /\ Holding(Value(heap, posts).items, ParseInt(view.param)) = {}

\* C28: submitting the form opened on the edit route for an id no record
\* has sends one `added` that carries no id; the list keeps its records and
\* gains one, whose id is new: one more than the largest.
C28_EditOfNoRecordAdds ==
    [][(EditsNoRecord /\ view'.route = "list") =>
          LET old == Value(heap, posts).items
              new == Value(heap', Published').items
          IN  /\ Len(view'.sent) = 1
              /\ view'.sent[1].type = "added"
              /\ view'.sent[1].id = Undefined
              /\ Published'.t = "arr"
              /\ Len(new) = Len(old) + 1
              /\ \A i \in 1..Len(old) : new[i] = old[i]
              /\ Holding(old, IdOf(new[Len(new)])) = {}
              /\ IdOf(new[Len(new)])
                    = Num(MaxOf({IdOf(old[i]).v : i \in 1..Len(old)}) + 1)
              /\ NameOf(new[Len(new)]) = Get(view'.sent[1].post.f, "name")]_vars

\* The form was opened on /events/1/edit over the empty list and submitted:
\* the list holds one record, with id 0.
C28_Witness ==
    /\ view.route = "list"
    /\ view.param = Str("1")
    /\ Len(view.sent) = 1
    /\ view.sent[1].type = "added"
    /\ Published.t = "arr"
    /\ Len(posts.refs) = 1
    /\ IdOf(heap[posts.refs[1]]) = Num(0)

\* The id the next `added` gives its record, on the list as it is now.
NextAddedId ==
    LET c == Compact(heap, posts)
        r == Reducer(revision, c.heap, c.val, Action("added", Undefined, ThisPayload, Undefined))
        l == Value(r.heap, r.val).items
    IN  IdOf(l[Len(l)])

\* The ids of a list, as numbers.
Numbers(list) == {IdOf(list[i]).v : i \in 1..Len(list)}

\* A `removed` has deleted the records holding its id.
Deleted ==
    /\ call.action.type = "removed"
    /\ call.out = "return"
    /\ Holding(Before, call.action.id) # {}

\* C29 as stated: after `removed` deletes the record holding the largest id,
\* the next `added` assigns that id again.
C29_LargestIdIsReassigned ==
    (Deleted /\ call.action.id.v = MaxOf(Numbers(Before))) =>
        NextAddedId = call.action.id

\* C29, amended: after `removed` the next `added` assigns one more than the
\* largest id left, 0 on the empty list.  When the largest id was removed
\* this is the removed id exactly if the largest id left is one below it;
\* when a larger id is left, the id assigned is above it and so is not the
\* removed id.
C29_NextIdFollowsLargestLeft ==
    Deleted =>
        LET x == call.action.id.v
            left == MaxOf(Numbers(After))
        IN  /\ NextAddedId = Num(left + 1)
            /\ x = MaxOf(Numbers(Before)) => (NextAddedId = Num(x) <=> left = x - 1)
            /\ left > x => (NextAddedId.v > left /\ NextAddedId # Num(x))

\* Record 1, the largest, was removed from the records 0 and 1: the next
\* `added` assigns 1 again.
C29_Witness ==
    /\ Deleted
    /\ call.action.id = Num(1)
    /\ Len(Before) = 2
    /\ IdOf(Before[1]) = Num(0) /\ IdOf(Before[2]) = Num(1)
    /\ Len(After) = 1
    /\ NextAddedId = Num(1)

\* Every record of the published list has an integer id, by which the form's
\* prefill finds a record and the row's `removed` deletes it.
IntegerIdsFindTheirRecords ==
    Published.t = "arr" =>
        \A id \in Ids(heap, posts) :
            /\ id.t = "num"
            /\ EventForm(InputValue(id)).id = InputValue(id)
            /\ \E c \in {Compact(heap, posts)} :
                  \E r \in {Reducer(revision, c.heap, c.val,
                                     Action("removed", id, Undefined, Undefined))} :
                      /\ r.out = "return"
                      /\ Holding(Value(r.heap, r.val).items, id) = {}

\* C30: from stored lists of integer ids, whatever the form and the rows
\* send, every record's id stays an integer that prefill and delete find;
\* the form's `updated`, which carries the id as text, leaves the id of
\* every record as it is and changes the name and ancestry of the records it
\* designates, and nothing else.
C30_IdsStayIntegers ==
    /\ []IntegerIdsFindTheirRecords
    /\ [][(view.route = "form" /\ view'.route = "list" /\ view'.sent[1].type = "updated") =>
             LET a == view'.sent[1]
                 old == Value(heap, posts).items
                 new == Value(heap', Published').items
             IN  /\ a.id.t = "str"
                 /\ Len(new) = Len(old)
                 /\ \A i \in 1..Len(old) :
                       /\ IdOf(new[i]) = IdOf(old[i])
                       /\ IF IdOf(old[i]) = ParseInt(a.id)
                          THEN /\ NameOf(new[i]) = Get(a.post.f, "name")
                               /\ AncestryOf(new[i]) = Get(a.post.f, "ancestry")
                          ELSE new[i] = old[i]]_vars

\* The form sent `updated` with the text "1"; record 1 has the ancestry sent
\* and its id is still the integer 1.
C30_Witness ==
    /\ view.route = "list"
    /\ Len(view.sent) = 1
    /\ view.sent[1].type = "updated"
    /\ view.sent[1].id = Str("1")
    /\ Published.t = "arr"
    /\ \E i \in 1..Len(posts.refs) :
          /\ IdOf(heap[posts.refs[i]]) = Num(1)
          /\ AncestryOf(heap[posts.refs[i]]) = Get(view.sent[1].post.f, "ancestry")
    /\ effectPending

TypeOK ==
    /\ revision \in Revisions
    /\ hook \in Hooks
    /\ phase \in {"unmounted", "initialized", "mounted", "crashed"}
    /\ posts.t \in {"arr", "undefined", "null", "num", "obj"}
    /\ posts.t = "arr" => \A i \in 1..Len(posts.refs) : posts.refs[i] \in 1..Len(heap)
    /\ view.list \in ListRevisions
    /\ view.term \in Terms
    /\ detail.post \in DetailPosts
    /\ detail.fetches \in 0..MaxFetches
    /\ remote.pending \in 0..2
    /\ phase = "mounted" /\ remote.data # Undefined => remote.data.t = "arr"
====
